---- MODULE Spec2Model ----
(***************************************************************************)
(* Model of cli/src/semdep/parsers/preprocessors.py: CommentRemover (a     *)
(* regex-configured comment stripper) and CombinedPreprocessor (lowercase, *)
(* then strip comments with the default regex).                            *)
(*                                                                         *)
(* A text is a sequence of one-character strings.  Offsets into a text are *)
(* 0-based as in Python: offset p sits before text[p+1].                   *)
(***************************************************************************)
EXTENDS Naturals, Sequences, FiniteSets

(***************************************************************************)
(* Bounds of the model.                                                    *)
(***************************************************************************)
MaxLen == 4

NumCallers == 2

Callers == 1..NumCallers

(***************************************************************************)
(* Input texts.                                                            *)
(***************************************************************************)
Alphabet == {"a", "A", " ", "\n", "#"}

BoundedTexts == UNION {[1..n -> Alphabet] : n \in 0..MaxLen}

\* "foo # bar\nbaz\n"
ScenarioInline == <<"f", "o", "o", " ", "#", " ", "b", "a", "r", "\n", "b", "a", "z", "\n">>

\* "  # only a comment\nkeep me\n"
ScenarioOnly == <<" ", " ", "#", " ", "o", "n", "l", "y", " ", "a", " ", "c", "o", "m", "m", "e", "n", "t", "\n", "k", "e", "e", "p", " ", "m", "e", "\n">>

\* "FOO # Bar\n"
ScenarioUpper == <<"F", "O", "O", " ", "#", " ", "B", "a", "r", "\n">>

\* "no comments here\n"
ScenarioNone == <<"n", "o", " ", "c", "o", "m", "m", "e", "n", "t", "s", " ", "h", "e", "r", "e", "\n">>

\* "foo#bar # x#y\nA#b ; C"
ScenarioGlued == <<"f", "o", "o", "#", "b", "a", "r", " ", "#", " ", "x", "#", "y", "\n", "A", "#", "b", " ", ";", " ", "C">>

\* "#a\n\n\t#B\r#c\n"
ScenarioBlank == <<"#", "a", "\n", "\n", "\t", "#", "B", "\r", "#", "c", "\n">>

Scenarios == {ScenarioInline, ScenarioOnly, ScenarioUpper, ScenarioNone, ScenarioGlued, ScenarioBlank}

Texts == BoundedTexts \cup Scenarios

(***************************************************************************)
(* Regular expressions handed to CommentRemover.__init__, as character     *)
(* sequences.                                                              *)
(***************************************************************************)
\* r"(^|\s+)"
PrefixGroup == <<"(", "^", "|", "\\", "s", "+", ")">>

\* r".*($)"
RestOfLine == <<".", "*", "(", "$", ")">>

\* r"(^|\s+)#.*($)", the default argument
DefaultRegex == PrefixGroup \o <<"#">> \o RestOfLine

\* r"(^|\s+);.*($)", a caller's regex for another marker
SemicolonRegex == PrefixGroup \o <<";">> \o RestOfLine

\* r"(^|\s+)(#).*($)", three groups
ThreeGroupRegex == PrefixGroup \o <<"(", "#", ")">> \o RestOfLine

\* r"(^|\s+)#.*", one group
OneGroupRegex == PrefixGroup \o <<"#", ".", "*">>

\* r"(?:^|\s+)#.*($)", one capturing group and one non-capturing
NonCapturingRegex == <<"(", "?", ":", "^", "|", "\\", "s", "+", ")", "#">> \o RestOfLine

\* r"#.*", no group
NoGroupRegex == <<"#", ".", "*">>

RegexInputs == {DefaultRegex, SemicolonRegex, ThreeGroupRegex, OneGroupRegex, NonCapturingRegex, NoGroupRegex}

(***************************************************************************)
(* re.compile(regex, re.MULTILINE).groups: the number of capturing groups, *)
(* i.e. of unescaped "(" not followed by "?".                              *)
(***************************************************************************)
Groups(regex) ==
    Cardinality({i \in 1..Len(regex) :
        /\ regex[i] = "("
        /\ (i = 1 \/ regex[i - 1] # "\\")
        /\ (i = Len(regex) \/ regex[i + 1] # "?")})

\* The marker of a regex of the shape (^|\s+)M.*($) or (^|\s+)(M).*($).
MarkerGrouped(regex) == regex[Len(PrefixGroup) + 1] = "("

Marker(regex) ==
    IF MarkerGrouped(regex) THEN regex[Len(PrefixGroup) + 2] ELSE regex[Len(PrefixGroup) + 1]

(***************************************************************************)
(* The matching engine on the comment regex, re.MULTILINE.                 *)
(***************************************************************************)
\* \s on str
IsSpace(c) == c \in {" ", "\t", "\n", "\r", "\f"}

\* A start-of-line test that holds at every offset
AtLineStartAnywhere(text, p) == TRUE

\* ^ under re.MULTILINE: at the start of the text and after each newline
AtLineStart(text, p) == p = 0 \/ text[p] = "\n"

\* $ without re.MULTILINE: at the end of the text and before a final newline
AtTextEnd(text, p) ==
    p = Len(text) \/ (p = Len(text) - 1 /\ text[Len(text)] = "\n")

\* $ under re.MULTILINE: at the end of the text and before each newline
AtLineEnd(text, p) == p = Len(text) \/ text[p + 1] = "\n"

\* \s+ greedy: the offset after the longest whitespace run from offset p
RECURSIVE SpaceRunEnd(_, _)
SpaceRunEnd(text, p) ==
    IF p < Len(text) /\ IsSpace(text[p + 1]) THEN SpaceRunEnd(text, p + 1) ELSE p

\* .* greedy under re.DOTALL: "." is any character
DotAllEnd(text, p) == Len(text)

\* .* greedy (no re.DOTALL: "." is any character but a newline)
RECURSIVE DotStarEnd(_, _)
DotStarEnd(text, p) ==
    IF p < Len(text) /\ text[p + 1] # "\n" THEN DotStarEnd(text, p + 1) ELSE p

Max(S) == CHOOSE e \in S : \A f \in S : f <= e

\* As TailEnds, the marker not required
TailEndsAnyMarker(regex, text, q) ==
    IF q < Len(text)
    THEN {e \in (q + 1)..DotStarEnd(text, q + 1) : AtLineEnd(text, e)}
    ELSE {}

\* M.*($) from offset q: the end offsets the engine can reach, none when the
\* marker is not at q.  .* takes the longest run and gives characters back
\* until $ matches, so the match ends at the largest of them.
TailEnds(regex, text, q) ==
    IF q < Len(text) /\ text[q + 1] = Marker(regex)
    THEN {e \in (q + 1)..DotStarEnd(text, q + 1) : AtLineEnd(text, e)}
    ELSE {}

NoMatch == [found |-> FALSE, start |-> 0, mid |-> 0, end |-> 0]

\* The match the engine finds with its start fixed at offset p: the branch ^
\* first, then \s+ from its longest run down to one character.  Group 1 is
\* text[start+1..mid].
MatchAt(regex, text, p) ==
    IF AtLineStart(text, p) /\ TailEnds(regex, text, p) # {}
    THEN [found |-> TRUE, start |-> p, mid |-> p, end |-> Max(TailEnds(regex, text, p))]
    ELSE LET runs == {q \in (p + 1)..SpaceRunEnd(text, p) : TailEnds(regex, text, q) # {}}
         IN  IF runs = {} THEN NoMatch
             ELSE [found |-> TRUE, start |-> p, mid |-> Max(runs),
                   end |-> Max(TailEnds(regex, text, Max(runs)))]

\* pattern.search from offset pos: the leftmost offset with a match
RECURSIVE Search(_, _, _)
Search(regex, text, pos) ==
    IF pos > Len(text) THEN NoMatch
    ELSE IF MatchAt(regex, text, pos).found THEN MatchAt(regex, text, pos)
    ELSE Search(regex, text, pos + 1)

\* The expansion of a template without \1
ExpandSuffixOnly(regex, text, m) ==
    IF MarkerGrouped(regex) THEN <<Marker(regex)>> ELSE <<>>

\* The expansion of the template r"\1\2" for a match
Expand(regex, text, m) ==
    SubSeq(text, m.start + 1, m.mid) \o (IF MarkerGrouped(regex) THEN <<Marker(regex)>> ELSE <<>>)

\* pattern.sub with count=1: the first match only
SubFirstOnly(regex, text, pos) ==
    LET m == Search(regex, text, pos)
    IN  IF m.found
        THEN SubSeq(text, pos + 1, m.start) \o Expand(regex, text, m)
                 \o SubSeq(text, m.end + 1, Len(text))
        ELSE SubSeq(text, pos + 1, Len(text))

\* pattern.sub over the non-overlapping matches from offset pos on; a match
\* holds the marker, so it is never empty and the next search starts at its end
RECURSIVE SubFrom(_, _, _)
SubFrom(regex, text, pos) ==
    LET m == Search(regex, text, pos)
    IN  IF m.found
        THEN SubSeq(text, pos + 1, m.start) \o Expand(regex, text, m) \o SubFrom(regex, text, m.end)
        ELSE SubSeq(text, pos + 1, Len(text))

\* A call's outcome: the returned text, or an exception raised
Returned(text) == [ok |-> TRUE, value |-> text]

Raised == [ok |-> FALSE, value |-> <<>>]

\* pattern.sub(r"\1\2", target): the template names groups 1 and 2, and sub
\* raises re.error (invalid group reference) when the pattern lacks one
Sub(regex, target) ==
    IF Groups(regex) < 2 THEN Raised ELSE Returned(SubFrom(regex, target, 0))

(***************************************************************************)
(* str.lower()                                                             *)
(***************************************************************************)
UpperLetters == <<"A", "B", "C", "D", "E", "F", "G", "H", "I", "J", "K", "L", "M", "N", "O", "P", "Q", "R", "S", "T", "U", "V", "W", "X", "Y", "Z">>

LowerLetters == <<"a", "b", "c", "d", "e", "f", "g", "h", "i", "j", "k", "l", "m", "n", "o", "p", "q", "r", "s", "t", "u", "v", "w", "x", "y", "z">>

LowerChar(c) ==
    IF \E i \in 1..Len(UpperLetters) : UpperLetters[i] = c
    THEN LowerLetters[CHOOSE i \in 1..Len(UpperLetters) : UpperLetters[i] = c]
    ELSE c

\* The text as it is, not lowered
LowerSkipped(text) == text

Lower(text) == [i \in 1..Len(text) |-> LowerChar(text[i])]

(***************************************************************************)
(* The objects and their callers.                                          *)
(*   remover       a CommentRemover built from a caller's regex            *)
(*   preprocessor  a CombinedPreprocessor and the CommentRemover it holds  *)
(*   pc, op, target, lowercase_content, result                             *)
(*                 per caller: where its call stands, which call it is,    *)
(*                 the argument, the local of CombinedPreprocessor.__call__ *)
(*                 and what the call returned or raised                     *)
(***************************************************************************)
VARIABLES remover, preprocessor, pc, op, target, lowercase_content, result

vars == <<remover, preprocessor, pc, op, target, lowercase_content, result>>

NoRemover == [status |-> "none", pattern |-> <<>>, groups |-> 0]

NoResult == [ok |-> TRUE, value |-> <<>>]

\* if self.pattern.groups != 2: raise ValueError(...)
GroupsAtLeastTwo(n) == n >= 2

GroupsAtMostTwo(n) == n <= 2

GroupsValid(n) == n = 2

\* CommentRemover.__init__: the instance, or the ValueError with the group
\* count and the pattern its message reports
NewCommentRemover(regex) ==
    [status |-> IF GroupsValid(Groups(regex)) THEN "ok" ELSE "ValueError",
     pattern |-> regex,
     groups |-> Groups(regex)]

\* CommentRemover.__call__
CommentRemoverCall(r, text) == Sub(r.pattern, text)

\* The frame that holds the local lowercase_content of a caller's call
SharedFrame(c) == 1

Frame(c) == c

Init ==
    /\ remover = NoRemover
    /\ preprocessor = [status |-> "none", comment_remover |-> NoRemover]
    /\ pc = [c \in Callers |-> "idle"]
    /\ op = [c \in Callers |-> "none"]
    /\ target = [c \in Callers |-> <<>>]
    /\ lowercase_content = [c \in Callers |-> <<>>]
    /\ result = [c \in Callers |-> NoResult]

\* CommentRemover(regex), while no instance is in use
ConstructRemover(regex) ==
    /\ remover.status # "ok"
    /\ remover' = NewCommentRemover(regex)
    /\ UNCHANGED <<preprocessor, pc, op, target, lowercase_content, result>>

\* CombinedPreprocessor(): self.comment_remover = CommentRemover(); an
\* exception of the inner constructor leaves the outer one
ConstructPreprocessor ==
    /\ preprocessor.status = "none"
    /\ LET r == NewCommentRemover(DefaultRegex)
       IN  preprocessor' = [status |-> r.status, comment_remover |-> r]
    /\ UNCHANGED <<remover, pc, op, target, lowercase_content, result>>

\* remover(t)
StripCall(c, t) ==
    /\ pc[c] = "idle"
    /\ remover.status = "ok"
    /\ pc' = [pc EXCEPT ![c] = "done"]
    /\ op' = [op EXCEPT ![c] = "strip"]
    /\ target' = [target EXCEPT ![c] = t]
    /\ result' = [result EXCEPT ![c] = CommentRemoverCall(remover, t)]
    /\ UNCHANGED <<remover, preprocessor, lowercase_content>>

\* preprocessor(t), first statement: lowercase_content = target.lower()
NormalizeLower(c, t) ==
    /\ pc[c] = "idle"
    /\ preprocessor.status = "ok"
    /\ pc' = [pc EXCEPT ![c] = "lowered"]
    /\ op' = [op EXCEPT ![c] = "normalize"]
    /\ target' = [target EXCEPT ![c] = t]
    /\ lowercase_content' = [lowercase_content EXCEPT ![Frame(c)] = Lower(t)]
    /\ UNCHANGED <<remover, preprocessor, result>>

\* preprocessor(t), second statement: return self.comment_remover(lowercase_content)
NormalizeStrip(c) ==
    /\ pc[c] = "lowered"
    /\ pc' = [pc EXCEPT ![c] = "done"]
    /\ result' = [result EXCEPT ![c] =
                      CommentRemoverCall(preprocessor.comment_remover, lowercase_content[Frame(c)])]
    /\ UNCHANGED <<remover, preprocessor, op, target, lowercase_content>>

\* The caller takes the outcome; the call's frame is gone
Return(c) ==
    /\ pc[c] = "done"
    /\ pc' = [pc EXCEPT ![c] = "idle"]
    /\ op' = [op EXCEPT ![c] = "none"]
    /\ target' = [target EXCEPT ![c] = <<>>]
    /\ lowercase_content' = [lowercase_content EXCEPT ![Frame(c)] = <<>>]
    /\ result' = [result EXCEPT ![c] = NoResult]
    /\ UNCHANGED <<remover, preprocessor>>

\* One caller, every text up to MaxLen and the scenarios
Next ==
    \/ \E regex \in RegexInputs : ConstructRemover(regex)
    \/ ConstructPreprocessor
    \/ \E t \in Texts : StripCall(1, t)
    \/ \E t \in Texts : NormalizeLower(1, t)
    \/ NormalizeStrip(1)
    \/ Return(1)

Spec == Init /\ [][Next]_vars

\* Several callers on the same instances, their statements interleaved
ConcTexts == {ScenarioUpper, ScenarioGlued, ScenarioBlank, <<"A", " ", "#", "b">>}

ConcNext ==
    \/ \E regex \in RegexInputs : ConstructRemover(regex)
    \/ ConstructPreprocessor
    \/ \E c \in Callers, t \in ConcTexts : StripCall(c, t)
    \/ \E c \in Callers, t \in ConcTexts : NormalizeLower(c, t)
    \/ \E c \in Callers : NormalizeStrip(c)
    \/ \E c \in Callers : Return(c)

ConcSpec == Init /\ [][ConcNext]_vars

(***************************************************************************)
(* What the claims speak of: lines, comment starts, finished calls.        *)
(***************************************************************************)
Min(S) == CHOOSE e \in S : \A f \in S : e <= f

Newlines(text) == Cardinality({i \in 1..Len(text) : text[i] = "\n"})

\* The lines of a text, without their "\n"; n terminators give n + 1 lines
RECURSIVE SplitLines(_)
SplitLines(text) ==
    LET nl == {i \in 1..Len(text) : text[i] = "\n"}
    IN  IF nl = {} THEN <<text>>
        ELSE <<SubSeq(text, 1, Min(nl) - 1)>> \o SplitLines(SubSeq(text, Min(nl) + 1, Len(text)))

RECURSIVE JoinLines(_)
JoinLines(lines) ==
    IF Len(lines) = 1 THEN lines[1] ELSE lines[1] \o <<"\n">> \o JoinLines(Tail(lines))

\* A "#" that is the first character of its line or stands right after whitespace
IsCommentStart(line, i) == line[i] = "#" /\ (i = 1 \/ IsSpace(line[i - 1]))

CommentStarts(line) == {i \in 1..Len(line) : IsCommentStart(line, i)}

\* The line cut at its first comment start
TruncateLine(line) ==
    IF CommentStarts(line) = {} THEN line ELSE SubSeq(line, 1, Min(CommentStarts(line)) - 1)

StripByLines(text) ==
    LET lines == SplitLines(text)
    IN  JoinLines([k \in 1..Len(lines) |-> TruncateLine(lines[k])])

LoweredByChar(text) == [i \in 1..Len(text) |-> LowerChar(text[i])]

\* Caller c holds the outcome of strip_comments(target[c]) on a remover built
\* with the default pattern
DefaultStripDone(c) ==
    pc[c] = "done" /\ op[c] = "strip" /\ remover.pattern = DefaultRegex

\* Caller c holds the outcome of normalize(target[c])
NormalizeDone(c) == pc[c] = "done" /\ op[c] = "normalize"

\* "foo\nbaz\n" and "foo \nbaz\n"
InlineTrimmed == <<"f", "o", "o", "\n", "b", "a", "z", "\n">>

InlineKept == <<"f", "o", "o", " ", "\n", "b", "a", "z", "\n">>

\* "\nkeep me\n" and "  \nkeep me\n"
OnlyTrimmed == <<"\n", "k", "e", "e", "p", " ", "m", "e", "\n">>

OnlyKept == <<" ", " ", "\n", "k", "e", "e", "p", " ", "m", "e", "\n">>

\* "foo\n" and "foo \n"
UpperTrimmed == <<"f", "o", "o", "\n">>

UpperKept == <<"f", "o", "o", " ", "\n">>

(***************************************************************************)
(* C1  Line-count preservation: strip_comments with the default pattern    *)
(* returns a text with as many "\n" as its input, also when the whitespace *)
(* run before a "#" spans line boundaries.                                 *)
(***************************************************************************)
C1_LineCountPreserved ==
    \A c \in Callers :
        DefaultStripDone(c) =>
            /\ result[c].ok
            /\ Newlines(result[c].value) = Newlines(target[c])

\* "a\n #": the run "\n " before the "#" holds a line boundary and is kept
C1_Witness ==
    \E c \in Callers :
        /\ DefaultStripDone(c)
        /\ target[c] = <<"a", "\n", " ", "#">>
        /\ result[c].value = <<"a", "\n", " ">>

(***************************************************************************)
(* C2  As claimed: a comment is removed together with the whitespace run   *)
(* right before its "#": the three scenarios return "foo\nbaz\n",          *)
(* "\nkeep me\n" and "foo\n", and no whitespace that stood directly before *)
(* a removed comment remains at the end of the output line.                *)
(***************************************************************************)
C2_WhitespaceRemoved ==
    \A c \in Callers :
        /\ (DefaultStripDone(c) /\ target[c] = ScenarioInline) => result[c].value = InlineTrimmed
        /\ (DefaultStripDone(c) /\ target[c] = ScenarioOnly) => result[c].value = OnlyTrimmed
        /\ (NormalizeDone(c) /\ target[c] = ScenarioUpper) => result[c].value = UpperTrimmed
        /\ DefaultStripDone(c) =>
              LET ins == SplitLines(target[c])
                  outs == SplitLines(result[c].value)
              IN  /\ Len(outs) = Len(ins)
                  /\ \A k \in 1..Len(ins) :
                         (CommentStarts(ins[k]) # {} /\ Min(CommentStarts(ins[k])) > 1)
                             => Len(outs[k]) < Min(CommentStarts(ins[k])) - 1

(***************************************************************************)
(* C2 as amended: a comment is removed from its "#" to the end of the      *)
(* line and the whitespace run right before the "#" stays: the three       *)
(* scenarios return "foo \nbaz\n", "  \nkeep me\n" and "foo \n", and the   *)
(* output line ends with the whitespace that stood before the "#".         *)
(***************************************************************************)
C2_WhitespaceKept ==
    \A c \in Callers :
        /\ (DefaultStripDone(c) /\ target[c] = ScenarioInline) => result[c].value = InlineKept
        /\ (DefaultStripDone(c) /\ target[c] = ScenarioOnly) => result[c].value = OnlyKept
        /\ (NormalizeDone(c) /\ target[c] = ScenarioUpper) => result[c].value = UpperKept
        /\ DefaultStripDone(c) =>
              LET ins == SplitLines(target[c])
                  outs == SplitLines(result[c].value)
              IN  /\ Len(outs) = Len(ins)
                  /\ \A k \in 1..Len(ins) :
                         (CommentStarts(ins[k]) # {} /\ Min(CommentStarts(ins[k])) > 1)
                             => /\ Len(outs[k]) = Min(CommentStarts(ins[k])) - 1
                                /\ IsSpace(outs[k][Len(outs[k])])
                                /\ outs[k][Len(outs[k])] = ins[k][Len(outs[k])]

C2_Witness ==
    \E c \in Callers :
        /\ DefaultStripDone(c)
        /\ target[c] = ScenarioInline
        /\ result[c].value = InlineKept

(***************************************************************************)
(* C3  strip_comments with the default pattern returns its input with each *)
(* line cut at the first "#" that is at the line's start or after          *)
(* whitespace: that "#" and what follows up to the "\n" go, the whitespace *)
(* before it stays, nothing is inserted, the rest is unchanged.            *)
(***************************************************************************)
C3_LinesTruncated ==
    \A c \in Callers :
        DefaultStripDone(c) => result[c] = Returned(StripByLines(target[c]))

\* "foo#bar # x#y\nA#b ; C" gives "foo#bar \nA#b ; C"
C3_Witness ==
    \E c \in Callers :
        /\ DefaultStripDone(c)
        /\ target[c] = ScenarioGlued
        /\ result[c].value = SubSeq(ScenarioGlued, 1, 8) \o SubSeq(ScenarioGlued, 14, 21)

(***************************************************************************)
(* C4  No-comment no-op: a text without "#" (the empty text and a text     *)
(* with an unterminated last line included) is returned as it is.          *)
(***************************************************************************)
C4_NoMarkerNoOp ==
    \A c \in Callers :
        (DefaultStripDone(c) /\ \A i \in 1..Len(target[c]) : target[c][i] # "#")
            => result[c] = Returned(target[c])

\* " \na": whitespace, a line boundary and an unterminated last line
C4_Witness ==
    \E c \in Callers :
        /\ DefaultStripDone(c)
        /\ target[c] = <<" ", "\n", "a">>
        /\ result[c].value = target[c]

(***************************************************************************)
(* C5  Idempotence: stripping the output of strip_comments again returns   *)
(* it unchanged, and the output holds no "#" at a line start or after      *)
(* whitespace.                                                             *)
(***************************************************************************)
C5_Idempotent ==
    \A c \in Callers :
        DefaultStripDone(c) =>
            /\ result[c].ok
            /\ CommentRemoverCall(remover, result[c].value) = result[c]
            /\ \A i \in 1..Len(result[c].value) :
                   result[c].value[i] = "#" => (i > 1 /\ ~IsSpace(result[c].value[i - 1]))

\* "#\n\n#": comments on two lines with a blank line between them
C5_Witness ==
    \E c \in Callers :
        /\ DefaultStripDone(c)
        /\ target[c] = <<"#", "\n", "\n", "#">>
        /\ result[c].value = <<"\n", "\n">>

(***************************************************************************)
(* C6  Construction validation: a pattern with 0, 1 or 3 capture groups    *)
(* is refused at construction with the error that reports its group count  *)
(* (ValueError in the code), no call runs on a refused remover, and a      *)
(* pattern with two groups gives an instance.                              *)
(***************************************************************************)
C6_ConstructionValidated ==
    /\ remover.pattern = NoGroupRegex => (remover.status = "ValueError" /\ remover.groups = 0)
    /\ remover.pattern \in {OneGroupRegex, NonCapturingRegex}
           => (remover.status = "ValueError" /\ remover.groups = 1)
    /\ remover.pattern = ThreeGroupRegex => (remover.status = "ValueError" /\ remover.groups = 3)
    /\ remover.pattern \in {DefaultRegex, SemicolonRegex}
           => (remover.status = "ok" /\ remover.groups = 2)
    /\ \A c \in Callers : op[c] = "strip" => remover.status = "ok"

\* r"(^|\s+)(#).*($)" was refused and the error reports 3 groups
C6_Witness ==
    /\ remover.status = "ValueError"
    /\ remover.pattern = ThreeGroupRegex
    /\ remover.groups = 3

(***************************************************************************)
(* C7  Composition order: normalize lowers the whole input first, and      *)
(* returns the lowered text with its comments stripped by the default      *)
(* pattern.                                                                *)
(***************************************************************************)
C7_LowerThenStrip ==
    \A c \in Callers :
        /\ (pc[c] = "lowered" /\ op[c] = "normalize")
               => lowercase_content[c] = LoweredByChar(target[c])
        /\ NormalizeDone(c)
               => result[c] = Returned(StripByLines(LoweredByChar(target[c])))

\* "FOO # Bar\n" gives "foo \n"
C7_Witness ==
    \E c \in Callers :
        /\ NormalizeDone(c)
        /\ target[c] = ScenarioUpper
        /\ lowercase_content[c] = LoweredByChar(ScenarioUpper)
        /\ result[c].value = UpperKept

(***************************************************************************)
(* C8  Errors occur at construction only: a call on a constructed remover  *)
(* or preprocessor returns a text for every input, and constructing the    *)
(* preprocessor never fails.                                               *)
(***************************************************************************)
C8_CallsNeverFail ==
    /\ \A c \in Callers : pc[c] = "done" => result[c].ok
    /\ preprocessor.status \in {"none", "ok"}
    /\ preprocessor.status = "ok" => preprocessor.comment_remover.pattern = DefaultRegex

\* strip_comments("#") on a remover with a caller's two-group pattern
C8_Witness ==
    \E c \in Callers :
        /\ pc[c] = "done"
        /\ op[c] = "strip"
        /\ remover.pattern = SemicolonRegex
        /\ preprocessor.status = "ok"
        /\ target[c] = <<"#">>
        /\ result[c] = Returned(<<"#">>)

(***************************************************************************)
(* C9  Statelessness under interleaving: a call leaves the remover and the *)
(* preprocessor as they were built, and whatever other callers do in       *)
(* between, a call returns what it returns when run alone on its input.    *)
(***************************************************************************)
RunAlone(c) ==
    IF op[c] = "strip"
    THEN CommentRemoverCall(remover, target[c])
    ELSE CommentRemoverCall(NewCommentRemover(DefaultRegex), Lower(target[c]))

CallsIndependent == \A c \in Callers : pc[c] = "done" => result[c] = RunAlone(c)

InstancesKept ==
    /\ remover.status = "ok" => remover' = remover
    /\ preprocessor.status = "ok" => preprocessor' = preprocessor

C9_Stateless == [](CallsIndependent) /\ [][InstancesKept]_vars

\* Two normalize calls on different inputs, one finished while the other
\* stands between its two statements
C9_Witness ==
    \E c, d \in Callers :
        /\ c # d
        /\ NormalizeDone(c)
        /\ pc[d] = "lowered"
        /\ target[c] = ScenarioUpper
        /\ target[d] = ScenarioBlank
        /\ result[c].value = UpperKept

(***************************************************************************)
(* C10  A "#" starts a comment only at the start of a line or right after  *)
(* whitespace: a line whose "#" all follow a non-whitespace character is   *)
(* returned unchanged, and such a "#" goes only when an earlier comment    *)
(* start stands on its line.                                               *)
(***************************************************************************)
C10_GluedMarkerKept ==
    \A c \in Callers :
        DefaultStripDone(c) =>
            LET ins == SplitLines(target[c])
                outs == SplitLines(result[c].value)
            IN  /\ Len(outs) = Len(ins)
                /\ \A k \in 1..Len(ins) :
                       /\ CommentStarts(ins[k]) = {} => outs[k] = ins[k]
                       /\ \A i \in 1..Len(ins[k]) :
                              (ins[k][i] = "#" /\ \A j \in 1..i : ~IsCommentStart(ins[k], j))
                                  => (i <= Len(outs[k]) /\ outs[k][i] = "#")
                       /\ \A i \in 1..Len(ins[k]) :
                              (i <= Len(outs[k]) /\ outs[k][i] = "#") => ~IsCommentStart(ins[k], i)

\* "foo#bar # x#y\nA#b ; C": the "#" of foo#bar and of A#b stay, x#y goes
C10_Witness ==
    \E c \in Callers :
        /\ DefaultStripDone(c)
        /\ target[c] = ScenarioGlued
        /\ SplitLines(result[c].value)[2] = SplitLines(ScenarioGlued)[2]
        /\ result[c].value[4] = "#"
        /\ Len(SplitLines(result[c].value)[1]) = 8

====
